---- MODULE Spec2Model ----
(***************************************************************************)
(* Model of git-hash (src/main.rs): one invocation resolves a selector to  *)
(* a commit, derives the snippet file name, checks the .snippets directory *)
(* for a record with the same prefix, and fetches/writes when needed.      *)
(*                                                                         *)
(* Rust strings are sequences of one-character strings, so that            *)
(* starts_with, strip_suffix, rsplit and format! are computed as the code  *)
(* computes them.  Option<T> is <<>> for None and <<v>> for Some(v).       *)
(***************************************************************************)
EXTENDS FiniteSets, Integers, Sequences, TLC

\* ------------------------------------------------------------------ bounds
MaxRuns == 2
MaxMoves == 1

\* ----------------------------------------------------------- Option<T>
None == <<>>
Some(v) == <<v>>
is_some(o) == o # <<>>
unwrap(o) == o[1]

\* ------------------------------------------------- strings used as inputs
Url1 == <<"g", ".", "i", "o", "/", "r">>
Main == <<"m", "a", "i", "n">>
NoBranch == <<"n", "o">>
V1 == <<"v", "1">>
A1 == <<"a", "1">>
B2 == <<"b", "2">>
ZZ == <<"z", "z">>
PathLib == <<"s", "/", "l", ".", "r", "s">>
PathGx == <<"g", "-", "x">>
PathGitHead == <<".", "g", "i", "t", "/", "H", "E", "A", "D">>
Url2 == <<"g", ".", "i", "o", "/", "q">>
PathLib2 == <<"t", "/", "l", ".", "r", "s">>
KBranch == <<"b", "r", "a", "n", "c", "h">>
KTag == <<"t", "a", "g">>
KCommit == <<"c", "o", "m", "m", "i", "t">>
Unknown == <<"u", "n", "k", "n", "o", "w", "n">>
DotRs == <<".", "r", "s">>
RefsHeads == <<"r", "e", "f", "s", "/", "h", "e", "a", "d", "s", "/">>
Hyphen == <<"-">>

Urls == {Url1}
BranchArgs == {None, Some(Main), Some(NoBranch)}
TagArgs == {None, Some(V1)}
CommitArgs == {None, Some(A1), Some(B2), Some(ZZ)}
Paths == {PathLib, PathGx, PathGitHead}

\* ------------------------------------------------------ str primitives
starts_with(s, pre) ==
  Len(pre) <= Len(s) /\ SubSeq(s, 1, Len(pre)) = pre

ends_with(s, suf) ==
  Len(suf) <= Len(s) /\ SubSeq(s, Len(s) - Len(suf) + 1, Len(s)) = suf

\* str::strip_suffix: Some(rest) when s ends with suf, else None
strip_suffix(s, suf) ==
  IF ends_with(s, suf) THEN Some(SubSeq(s, 1, Len(s) - Len(suf))) ELSE None

\* str::strip_prefix(..).unwrap_or(s)
strip_prefix_or(s, pre) ==
  IF starts_with(s, pre) THEN SubSeq(s, Len(pre) + 1, Len(s)) ELSE s

\* s.rsplit(ch).next(): the fragment after the last ch, all of s if none
rsplit_next(s, ch) ==
  LET idx == {i \in 1..Len(s) : s[i] = ch}
      last == IF idx = {} THEN 0 ELSE CHOOSE i \in idx : \A j \in idx : j <= i
  IN SubSeq(s, last + 1, Len(s))

\* Path::file_name: the last component when it is a normal one
RECURSIVE split_path(_)
split_path(s) ==
  LET idx == {i \in 1..Len(s) : s[i] = "/"}
  IN IF idx = {} THEN <<s>>
     ELSE LET first == CHOOSE i \in idx : \A j \in idx : i <= j
          IN <<SubSeq(s, 1, first - 1)>> \o split_path(SubSeq(s, first + 1, Len(s)))

file_name(path) ==
  LET comps == SelectSeq(split_path(path), LAMBDA c : c # <<>> /\ c # <<".">>)
  IN IF comps = <<>> THEN None
     ELSE IF comps[Len(comps)] = <<".", ".">> THEN None
     ELSE Some(comps[Len(comps)])

\* ------------------------------------------------------------ hashing
\* First 8 hex characters of SHA-256 of every string the model hashes.
HashTable ==
  {
    <<<<"g", ".", "i", "o", "/", "q">>,
      <<"e", "5", "0", "f", "7", "5", "e", "6">>>>,
    <<<<"t", "/", "l", ".", "r", "s">>,
      <<"f", "d", "a", "9", "d", "0", "c", "7">>>>,
    <<<<"b", "r", "a", "n", "c", "h", "-">>,
      <<"1", "a", "3", "f", "a", "0", "b", "c">>>>,
    <<<<"g", ".", "i", "o", "/", "r">>,
      <<"0", "3", "0", "d", "a", "e", "7", "4">>>>,
    <<<<"c", "o", "m", "m", "i", "t", "-", "a", "1">>,
      <<"2", "4", "0", "4", "6", "b", "c", "7">>>>,
    <<<<"c", "o", "m", "m", "i", "t", "-", "b", "2">>,
      <<"0", "5", "e", "8", "f", "d", "6", "c">>>>,
    <<<<"c", "o", "m", "m", "i", "t", "-", "z", "z">>,
      <<"f", "8", "2", "1", "d", "9", "0", "8">>>>,
    <<<<"t", "a", "g", "-", "v", "1">>,
      <<"c", "b", "b", "b", "8", "6", "1", "a">>>>,
    <<<<"b", "r", "a", "n", "c", "h", "-", "m", "a", "i", "n">>,
      <<"1", "2", "7", "a", "6", "7", "6", "a">>>>,
    <<<<"b", "r", "a", "n", "c", "h", "-", "n", "o">>,
      <<"0", "0", "d", "0", "7", "9", "5", "5">>>>,
    <<<<"s", "/", "l", ".", "r", "s">>,
      <<"a", "d", "5", "e", "6", "7", "e", "8">>>>,
    <<<<"g", "-", "x">>,
      <<"3", "0", "e", "c", "8", "5", "9", "b">>>>,
    <<<<".", "g", "i", "t", "/", "H", "E", "A", "D">>,
      <<"c", "8", "f", "1", "9", "e", "6", "6">>>>
  }

hash_string(input) ==
  (CHOOSE e \in HashTable : e[1] = input)[2]

hash_git_url(url) == hash_string(url)

hash_git_option(option_type, value) ==
  hash_string(option_type \o Hyphen \o value)

\* SnippetFile::new with a prefix that leaves the git option out
SnippetFile_new_no_option(git_url, git_option_type, git_option_value, path, commit_sha) ==
  LET fname == IF is_some(file_name(path)) THEN unwrap(file_name(path)) ELSE Unknown
      prefix == hash_git_url(git_url) \o Hyphen
                \o hash_string(path) \o Hyphen
                \o fname
  IN [prefix |-> prefix,
      commit_hash |-> commit_sha,
      full_name |-> prefix \o Hyphen \o commit_sha \o DotRs]

\* SnippetFile::new with a prefix that names the file but not its path
SnippetFile_new_no_path_hash(git_url, git_option_type, git_option_value, path, commit_sha) ==
  LET fname == IF is_some(file_name(path)) THEN unwrap(file_name(path)) ELSE Unknown
      prefix == hash_git_url(git_url) \o Hyphen
                \o hash_git_option(git_option_type, git_option_value) \o Hyphen
                \o fname
  IN [prefix |-> prefix,
      commit_hash |-> commit_sha,
      full_name |-> prefix \o Hyphen \o commit_sha \o DotRs]

\* ------------------------------------------------------- SnippetFile
SnippetFile_new(git_url, git_option_type, git_option_value, path, commit_sha) ==
  LET fname == IF is_some(file_name(path)) THEN unwrap(file_name(path)) ELSE Unknown
      prefix == hash_git_url(git_url) \o Hyphen
                \o hash_git_option(git_option_type, git_option_value) \o Hyphen
                \o hash_string(path) \o Hyphen
                \o fname
  IN [prefix |-> prefix,
      commit_hash |-> commit_sha,
      full_name |-> prefix \o Hyphen \o commit_sha \o DotRs]

\* What the closure of find_map returns for one directory entry.
find_entry(prefix, entry_name) ==
  IF starts_with(entry_name, prefix)
  THEN IF is_some(strip_suffix(entry_name, DotRs))
       THEN Some([prefix |-> prefix,
                  commit_hash |-> rsplit_next(unwrap(strip_suffix(entry_name, DotRs)), "-"),
                  full_name |-> entry_name])
       ELSE None
  ELSE None

\* The results find_existing can return over a directory: read_dir yields
\* the entries in no specified order and find_map takes the first entry the
\* closure accepts, so any accepted entry can be the result.  `.ok()?` turns
\* a read_dir that fails into None, and the closure passes over an entry
\* that fails, so None can be the result whatever the directory holds.
find_existing(dir_exists, names, prefix) ==
  IF ~dir_exists THEN {None}
  ELSE {find_entry(prefix, n) : n \in names} \cup {None}

\* ------------------------------------------------------------ remote
\* The remote repository: its branch heads, its tags and the symbolic
\* reference HEAD advertises.  Commits is its object database.
Commits == {A1, B2}
RemoteHEAD == RefsHeads \o Main

\* The number of write calls that write_all needs for a blob.
Chunks == 2

\* The blob of `path` in the tree of `commit`; None when the tree has no
\* such path.  A blob is the sequence of its parts, each named by the
\* commit and path it belongs to.
FileAt(commit, path) ==
  IF path = PathLib \/ (path = PathGx /\ commit = A1)
  THEN Some([i \in 1..Chunks |-> [commit |-> commit, path |-> path, part |-> i]])
  ELSE None

\* ------------------------------------------------------------- state
Procs == {1, 2}

VARIABLES
  store,      \* .snippets: the set of files [name, content]
  dirExists,  \* whether .snippets exists
  remote,     \* [heads, tags]: ref name -> commit
  inv,        \* per process: the invocation's position and locals
  runs,       \* invocations started
  moves       \* ref updates the remote has seen

vars == <<store, dirExists, remote, inv, runs, moves>>

NoArgs == [git |-> <<>>, branch |-> None, tag |-> None, commit_hash |-> None, path |-> <<>>]
NoSnippet == [prefix |-> <<>>, commit_hash |-> <<>>, full_name |-> <<>>]
NoTempDir == [state |-> "none", commit |-> None]

Idle ==
  [pc |-> "idle", args |-> NoArgs,
   default_branch |-> <<>>, branch_name |-> <<>>,
   sha_branch |-> None, sha_tag |-> None, sha_default_branch |-> <<>>,
   git_option_type |-> <<>>, git_option_value |-> <<>>, commit_sha |-> <<>>,
   new_snippet |-> NoSnippet, existing_snippet |-> None,
   temp_dir |-> NoTempDir, content |-> None, file |-> "none", written |-> 0,
   err |-> "none", failedAt |-> "none",
   remote_ops |-> <<>>, fs_ops |-> <<>>,
   moves_at_resolve |-> 0, moves_at_fetch |-> 0,
   store0 |-> {}, dir0 |-> FALSE]

Terminal == {"done", "uptodate", "failed"}

Init ==
  /\ store = {}
  /\ dirExists = FALSE
  /\ remote = [heads |-> (Main :> A1), tags |-> (V1 :> A1)]
  /\ inv = [p \in Procs |-> Idle]
  /\ runs = 0
  /\ moves = 0

\* Fail that tries the failed stage once more before giving up
Fail_retry_once(r, kind) ==
  IF r.err = "none"
  THEN [r EXCEPT !.err = kind]
  ELSE [r EXCEPT !.pc = "failed", !.err = kind, !.failedAt = r.pc,
                 !.temp_dir = IF r.temp_dir.state = "live"
                              THEN [r.temp_dir EXCEPT !.state = "dropped"]
                              ELSE r.temp_dir]

\* Fail with the TempDir kept alive (as after mem::forget)
Fail_leak(r, kind) ==
  [r EXCEPT !.pc = "failed", !.err = kind, !.failedAt = r.pc]

\* `?` on an Err: main returns the error; a live TempDir is dropped.
Fail(r, kind) ==
  [r EXCEPT !.pc = "failed", !.err = kind, !.failedAt = r.pc,
            !.temp_dir = IF r.temp_dir.state = "live"
                         THEN [r.temp_dir EXCEPT !.state = "dropped"]
                         ELSE r.temp_dir]

RemoteOp(r, op) == [r EXCEPT !.remote_ops = Append(@, op)]
FsOp(r, op) == [r EXCEPT !.fs_ops = Append(@, op)]

\* The command lines given to the program: every combination of selectors
\* for PathLib, and the other paths asked for by commit hash.
CommandLines ==
  {[git |-> g, branch |-> b, tag |-> t, commit_hash |-> c, path |-> PathLib] :
     g \in Urls, b \in BranchArgs, t \in TagArgs, c \in CommitArgs}
  \cup {[git |-> g, branch |-> None, tag |-> None, commit_hash |-> c, path |-> f] :
          g \in Urls, c \in CommitArgs \ {None}, f \in Paths \ {PathLib}}

\* Args::parse: a new invocation with its command-line arguments.
Start(p) ==
  /\ inv[p].pc \in Terminal \cup {"idle"}
  /\ runs < MaxRuns
  /\ \E a \in CommandLines :
       inv' = [inv EXCEPT ![p] =
                 [Idle EXCEPT !.pc = "validate",
                              !.args = a,
                              !.store0 = store, !.dir0 = dirExists]]
  /\ runs' = runs + 1
  /\ UNCHANGED <<store, dirExists, remote, moves>>

\* Counting only --branch and --tag
options_count_two(args) ==
  Cardinality({i \in 1..2 : <<is_some(args.branch), is_some(args.tag)>>[i]})

options_count(args) ==
  Cardinality({i \in 1..3 : <<is_some(args.branch), is_some(args.tag),
                               is_some(args.commit_hash)>>[i]})

\* main: at most one of --branch, --tag, --commit_hash
Validate(p) ==
  /\ inv[p].pc = "validate"
  /\ inv' = [inv EXCEPT ![p] =
               IF options_count(@.args) > 1
               THEN Fail(@, "validation")
               ELSE [@ EXCEPT !.pc = "resolve"]]
  /\ UNCHANGED <<store, dirExists, remote, runs, moves>>

\* Resolving --commit_hash with a look at the remote first
resolve_commit_hash_online(r, hash) ==
  [RemoteOp(r, "handshake") EXCEPT !.git_option_type = KCommit,
                                   !.git_option_value = hash,
                                   !.commit_sha = hash,
                                   !.pc = "key"]

\* main: --commit_hash is taken as the option value and as the commit SHA
resolve_commit_hash(r, hash) ==
  [r EXCEPT !.git_option_type = KCommit,
            !.git_option_value = hash,
            !.commit_sha = hash,
            !.pc = "key"]

\* main: the selector decides how the commit SHA is obtained
Resolve(p) ==
  /\ inv[p].pc = "resolve"
  /\ inv' = [inv EXCEPT ![p] =
               IF is_some(@.args.commit_hash)
               THEN resolve_commit_hash(@, unwrap(inv[p].args.commit_hash))
               ELSE IF is_some(@.args.tag)
               THEN [@ EXCEPT !.sha_branch = None, !.sha_tag = inv[p].args.tag,
                              !.pc = "sha_connect"]
               ELSE [@ EXCEPT !.pc = "gdb_connect"]]
  /\ UNCHANGED <<store, dirExists, remote, runs, moves>>

\* How the opening of a remote can end: tempdir() fails, Repository::init
\* or remote_anonymous fails, connect or default_branch fails, the default
\* branch name is not UTF-8, or all of them succeed.
ConnectOutcomes == {"tempdir", "init", "connect", "name", "ok"}

\* The invocation after an unsuccessful opening of a remote: only connect
\* and what follows it have reached the remote.
connect_failure(r, outcome) ==
  IF outcome = "tempdir" THEN Fail(r, "io")
  ELSE IF outcome = "init" THEN Fail(r, "git2")
  ELSE IF outcome = "connect" THEN Fail(RemoteOp(r, "handshake"), "git2")
  ELSE Fail(RemoteOp(r, "handshake"), "name")

\* get_default_branch, and main's choice of the branch name
get_default_branch(p) ==
  /\ inv[p].pc = "gdb_connect"
  /\ \E outcome \in ConnectOutcomes :
       LET r == RemoteOp(inv[p], "handshake")
           default_branch == strip_prefix_or(RemoteHEAD, RefsHeads)
           branch_name == IF is_some(r.args.branch) THEN unwrap(r.args.branch)
                          ELSE default_branch
       IN inv' = [inv EXCEPT ![p] =
                    IF outcome = "ok"
                    THEN [r EXCEPT !.default_branch = default_branch,
                                   !.branch_name = branch_name,
                                   !.sha_branch = Some(branch_name),
                                   !.sha_tag = None,
                                   !.pc = "sha_connect"]
                    ELSE connect_failure(inv[p], outcome)]
  /\ UNCHANGED <<store, dirExists, remote, runs, moves>>

\* get_remote_commit_sha_without_clone, first half: connect to the remote
\* and read its default branch
sha_connect(p) ==
  /\ inv[p].pc = "sha_connect"
  /\ \E outcome \in ConnectOutcomes :
       LET r == RemoteOp(inv[p], "handshake")
       IN inv' = [inv EXCEPT ![p] =
                    IF outcome = "ok"
                    THEN [r EXCEPT !.sha_default_branch =
                                      strip_prefix_or(RemoteHEAD, RefsHeads),
                                   !.pc = "sha_fetch"]
                    ELSE connect_failure(inv[p], outcome)]
  /\ UNCHANGED <<store, dirExists, remote, runs, moves>>

\* The option value taken from the --branch argument, empty without one
branch_option_value_arg(r) ==
  IF is_some(r.args.branch) THEN unwrap(r.args.branch) ELSE <<>>

\* main: the option value of the branch arm is the branch name it resolved
branch_option_value(r) == r.branch_name

\* get_remote_commit_sha_without_clone, second half: fetch the one ref and
\* peel it to a commit; main then binds the option type, value and SHA
sha_fetch(p) ==
  /\ inv[p].pc = "sha_fetch"
  /\ \E ok \in BOOLEAN :
       LET r == RemoteOp(inv[p], "ref_fetch")
           branch_name == IF is_some(r.sha_branch) THEN unwrap(r.sha_branch)
                          ELSE r.sha_default_branch
           refs == IF is_some(r.sha_tag) THEN remote.tags ELSE remote.heads
           ref_name == IF is_some(r.sha_tag) THEN unwrap(r.sha_tag) ELSE branch_name
       IN inv' = [inv EXCEPT ![p] =
                    IF ok /\ ref_name \in DOMAIN refs
                    THEN [r EXCEPT !.commit_sha = refs[ref_name],
                                   !.moves_at_resolve = moves,
                                   !.git_option_type =
                                      IF is_some(r.args.tag) THEN KTag ELSE KBranch,
                                   !.git_option_value =
                                      IF is_some(r.args.tag) THEN unwrap(r.args.tag)
                                      ELSE branch_option_value(r),
                                   !.pc = "key"]
                    ELSE Fail(r, "git2")]
  /\ UNCHANGED <<store, dirExists, remote, runs, moves>>

\* main: SnippetFile::new for the resolved commit
KeyDerive(p) ==
  /\ inv[p].pc = "key"
  /\ inv' = [inv EXCEPT ![p] =
               [@ EXCEPT !.new_snippet =
                            SnippetFile_new(inv[p].args.git, inv[p].git_option_type,
                                            inv[p].git_option_value, inv[p].args.path,
                                            inv[p].commit_sha),
                         !.pc = "check"]]
  /\ UNCHANGED <<store, dirExists, remote, runs, moves>>

Names(st) == {e.name : e \in st}

\* fs::remove_file on a file of .snippets
remove_file(st, name) == {e \in st : e.name # name}

\* The content of a file of zero bytes.
EmptyFile == <<>>

\* The zero bytes a file reads between its former end and a later write.
Hole == [commit |-> <<>>, path |-> <<>>, part |-> 0]

\* File::create that leaves no other file in the directory
File_create_alone(st, name) == {[name |-> name, content |-> EmptyFile]}

\* fs::write, first half: File::create opens the file, creating it or
\* truncating it to zero bytes
File_create(st, name) ==
  {e \in st : e.name # name} \cup {[name |-> name, content |-> EmptyFile]}

\* One write call of write_all: `chunk` goes to the open file `name` at
\* part i, where the previous write call of this file handle ended
file_write(st, name, i, chunk) ==
  LET old == (CHOOSE e \in st : e.name = name).content
      len == IF Len(old) > i THEN Len(old) ELSE i
      new == [j \in 1..len |-> IF j = i THEN chunk
                               ELSE IF j <= Len(old) THEN old[j]
                               ELSE Hole]
  IN {e \in st : e.name # name} \cup {[name |-> name, content |-> new]}

\* remove_file of `name` by another process: a file this invocation holds
\* open under that name lives on without a name
unlinked(r, name) ==
  IF r.file = "open" /\ r.new_snippet.full_name = name
  THEN [r EXCEPT !.file = "unlinked"]
  ELSE r

\* main: look for a record with the same prefix and compare its commit
CheckExisting(p) ==
  /\ inv[p].pc = "check"
  /\ \E found \in find_existing(dirExists, Names(store), inv[p].new_snippet.prefix) :
       LET r == FsOp(inv[p], "read_dir")
       IN inv' = [inv EXCEPT ![p] =
                    IF is_some(found)
                    THEN IF unwrap(found).commit_hash = r.commit_sha
                         THEN [r EXCEPT !.existing_snippet = found, !.pc = "uptodate"]
                         ELSE [r EXCEPT !.existing_snippet = found, !.pc = "remove"]
                    ELSE [r EXCEPT !.pc = "mkdir"]]
  /\ UNCHANGED <<store, dirExists, remote, runs, moves>>

\* main: fs::remove_file of the record found with another commit
RemoveStale(p) ==
  /\ inv[p].pc = "remove"
  /\ \E ok \in BOOLEAN :
       LET r == FsOp(inv[p], "remove_file")
           name == unwrap(r.existing_snippet).full_name
       IN IF ok /\ name \in Names(store)
          THEN /\ store' = remove_file(store, name)
               /\ inv' = [q \in Procs |->
                            IF q = p THEN [r EXCEPT !.pc = "mkdir"]
                            ELSE unlinked(inv[q], name)]
          ELSE /\ store' = store
               /\ inv' = [inv EXCEPT ![p] = Fail(r, "io")]
  /\ UNCHANGED <<dirExists, remote, runs, moves>>

\* main: fs::create_dir_all(".snippets")
CreateDir(p) ==
  /\ inv[p].pc = "mkdir"
  /\ \E ok \in BOOLEAN :
       LET r == FsOp(inv[p], "create_dir_all")
       IN IF ok
          THEN /\ dirExists' = TRUE
               /\ inv' = [inv EXCEPT ![p] = [r EXCEPT !.pc = "clone"]]
          ELSE /\ dirExists' = dirExists
               /\ inv' = [inv EXCEPT ![p] = Fail(r, "io")]
  /\ UNCHANGED <<store, remote, runs, moves>>

\* clone_and_checkout_repo, first half: a temporary directory, an empty
\* repository in it, and a depth-1 fetch of the refspec +{commit_sha}.
\* tempdir() can fail before there is a TempDir, Repository::init or
\* remote_anonymous before the remote is asked anything.
CloneFetch(p) ==
  /\ inv[p].pc = "clone"
  /\ \E outcome \in {"tempdir", "init", "fetch", "ok"} :
       LET t == [inv[p] EXCEPT !.temp_dir = [state |-> "live", commit |-> None]]
           r == RemoteOp(t, "commit_fetch")
       IN inv' = [inv EXCEPT ![p] =
                    IF outcome = "ok"
                    THEN [r EXCEPT !.moves_at_fetch = moves, !.pc = "checkout"]
                    ELSE IF outcome = "fetch" THEN Fail(r, "git2")
                    ELSE IF outcome = "init" THEN Fail(t, "git2")
                    ELSE Fail(inv[p], "io")]
  /\ UNCHANGED <<store, dirExists, remote, runs, moves>>

\* The commit whose tree clone_and_checkout_repo checks out
checkout_target(r) == r.commit_sha

\* clone_and_checkout_repo, second half: Oid::from_str, find_commit,
\* checkout_tree and set_head_detached of the commit
CloneCheckout(p) ==
  /\ inv[p].pc = "checkout"
  /\ \E ok \in BOOLEAN :
       inv' = [inv EXCEPT ![p] =
                 IF ok /\ checkout_target(@) \in Commits
                 THEN [@ EXCEPT !.temp_dir.commit = Some(checkout_target(inv[p])),
                                !.pc = "read"]
                 ELSE Fail(@, "git2")]
  /\ UNCHANGED <<store, dirExists, remote, runs, moves>>

\* The file `path` names under the directory clone_and_checkout_repo
\* returns, with `commit` checked out: the files of the commit's tree, and
\* the repository's own files under .git, of which HEAD holds the commit
\* that set_head_detached wrote.
WorkDirFile(commit, path) ==
  IF path = PathGitHead
  THEN Some([i \in 1..Chunks |-> [commit |-> commit, path |-> path, part |-> i]])
  ELSE FileAt(commit, path)

\* fs::read_to_string of temp_dir.path().join(path), `commit` checked out
read_to_string(commit, path) == WorkDirFile(commit, path)

\* main: read_to_string of the requested path joined to the directory of
\* the checkout; it fails when there is no such file, and can fail on a
\* file that is there (not readable, not UTF-8)
ReadFile(p) ==
  /\ inv[p].pc = "read"
  /\ \E ok \in BOOLEAN :
       LET file == read_to_string(unwrap(inv[p].temp_dir.commit), inv[p].args.path)
       IN inv' = [inv EXCEPT ![p] =
                    IF ok /\ is_some(file)
                    THEN [@ EXCEPT !.content = file, !.pc = "write"]
                    ELSE Fail(@, "io")]
  /\ UNCHANGED <<store, dirExists, remote, runs, moves>>

\* main: fs::write of the snippet, first half: File::create.  When it
\* fails nothing has been created.
WriteCreate(p) ==
  /\ inv[p].pc = "write"
  /\ \E ok \in BOOLEAN :
       LET r == FsOp(inv[p], "write")
           name == r.new_snippet.full_name
       IN IF ok /\ dirExists
          THEN /\ store' = File_create(store, name)
               /\ inv' = [inv EXCEPT ![p] =
                            [r EXCEPT !.file = "open", !.pc = "write_all"]]
          ELSE /\ store' = store
               /\ inv' = [inv EXCEPT ![p] = Fail(r, "io")]
  /\ UNCHANGED <<dirExists, remote, runs, moves>>

\* main: fs::write of the snippet, second half: write_all is a loop of
\* write calls into the open file; after the last one the file is closed,
\* then mem::forget(temp_dir) and Ok(()).  When a write call fails the file
\* stays as the calls before it left it.
WriteAll(p) ==
  /\ inv[p].pc = "write_all"
  /\ \E ok \in BOOLEAN :
       LET r == inv[p]
           name == r.new_snippet.full_name
           buf == unwrap(r.content)
           i == r.written + 1
       IN IF ok
          THEN /\ store' = IF r.file = "open"
                           THEN file_write(store, name, i, buf[i])
                           ELSE store
               /\ inv' = [inv EXCEPT ![p] =
                            IF i = Len(buf)
                            THEN [r EXCEPT !.written = i, !.file = "none",
                                           !.temp_dir.state = "forgotten",
                                           !.pc = "done"]
                            ELSE [r EXCEPT !.written = i]]
          ELSE /\ store' = store
               /\ inv' = [inv EXCEPT ![p] = Fail([r EXCEPT !.file = "none"], "io")]
  /\ UNCHANGED <<dirExists, remote, runs, moves>>

\* The remote's owners move a branch or a tag to another commit.
RemoteMove ==
  /\ moves < MaxMoves
  /\ \E kind \in {"heads", "tags"}, c \in Commits :
       \E n \in DOMAIN remote[kind] :
         /\ remote[kind][n] # c
         /\ remote' = [remote EXCEPT ![kind][n] = c]
  /\ moves' = moves + 1
  /\ UNCHANGED <<store, dirExists, inv, runs>>

Step(p) ==
  \/ Start(p)
  \/ Validate(p)
  \/ Resolve(p)
  \/ get_default_branch(p)
  \/ sha_connect(p)
  \/ sha_fetch(p)
  \/ KeyDerive(p)
  \/ CheckExisting(p)
  \/ RemoveStale(p)
  \/ CreateDir(p)
  \/ CloneFetch(p)
  \/ CloneCheckout(p)
  \/ ReadFile(p)
  \/ WriteCreate(p)
  \/ WriteAll(p)

\* Sequential invocations: one process runs main again and again.
Next ==
  \/ Step(1)
  \/ RemoteMove

Spec == Init /\ [][Next]_vars

\* ----------------------------------------- an invocation and its re-run
\* Every step of main after its arguments are parsed.
Proceed(p) ==
  \/ Validate(p)
  \/ Resolve(p)
  \/ get_default_branch(p)
  \/ sha_connect(p)
  \/ sha_fetch(p)
  \/ KeyDerive(p)
  \/ CheckExisting(p)
  \/ RemoveStale(p)
  \/ CreateDir(p)
  \/ CloneFetch(p)
  \/ CloneCheckout(p)
  \/ ReadFile(p)
  \/ WriteCreate(p)
  \/ WriteAll(p)

\* The first invocation, on the empty store.
First == runs = 0 /\ Start(1)

\* The invocation that follows it once the first has terminated, with the
\* same command line.
Second ==
  /\ inv[1].pc \in Terminal
  /\ inv[2].pc = "idle"
  /\ Start(2)
  /\ inv'[2].args = inv[1].args

NextTwo ==
  \/ First
  \/ Proceed(1)
  \/ Second
  \/ Proceed(2)
  \/ RemoteMove

\* main is straight-line code and every call it makes returns: a started
\* invocation keeps taking steps until it returns.
SpecTwo ==
  Init /\ [][NextTwo]_vars /\ WF_vars(Proceed(1)) /\ WF_vars(Proceed(2))

\* ------------------------------------------- concurrent invocations
\* Two invocations run at once on one .snippets directory; each step of
\* main (one remote call or one system call on a file) is atomic.
ConcBranchArgs == {None, Some(Main)}
ConcTagArgs == {None}
ConcPaths == {PathLib}

\* The record an earlier invocation without selector wrote for PathLib when
\* the default branch was at A1.
EarlierRecord ==
  [name |-> SnippetFile_new(Url1, KBranch, Main, PathLib, A1).full_name,
   content |-> unwrap(FileAt(A1, PathLib))]

\* The store is empty, or holds the record of an earlier invocation.
InitConc ==
  /\ \/ store = {} /\ dirExists = FALSE
     \/ store = {EarlierRecord} /\ dirExists = TRUE
  /\ remote = [heads |-> (Main :> A1), tags |-> (V1 :> A1)]
  /\ inv = [p \in Procs |-> Idle]
  /\ runs = 0
  /\ moves = 0

\* Each process runs main once.
StartConc(p) ==
  /\ inv[p].pc = "idle"
  /\ Start(p)
  /\ inv'[p].args.branch \in ConcBranchArgs
  /\ inv'[p].args.tag \in ConcTagArgs
  /\ inv'[p].args.commit_hash = None
  /\ inv'[p].args.path \in ConcPaths
  /\ options_count(inv'[p].args) <= 1

NextConc ==
  \/ \E p \in Procs : StartConc(p) \/ Proceed(p)
  \/ RemoteMove

SpecConc == InitConc /\ [][NextConc]_vars

\* ------------------------------------------------- key derivation alone
\* Two invocations that have resolved their selector and are about to derive
\* their key, over two urls and three paths, two of them with one file name.
KeyUrls == {Url1, Url2}
KeyPaths == {PathLib, PathLib2, PathGx}

\* The resolutions main can have made when it reaches SnippetFile::new:
\* <<arguments, option type, option value, commit SHA>>.
KeyResolutions ==
  {<<[branch |-> b, tag |-> None, commit_hash |-> None], KBranch, Main, c>> :
      b \in {None, Some(Main)}, c \in Commits}
  \cup {<<[branch |-> None, tag |-> Some(V1), commit_hash |-> None], KTag, V1, c>> :
          c \in Commits}
  \cup {<<[branch |-> None, tag |-> None, commit_hash |-> Some(h)], KCommit, h, h>> :
          h \in {A1, B2, ZZ}}

KeyInputs ==
  {[Idle EXCEPT !.pc = "key",
                !.args = [git |-> g, branch |-> k[1].branch, tag |-> k[1].tag,
                          commit_hash |-> k[1].commit_hash, path |-> f],
                !.git_option_type = k[2],
                !.git_option_value = k[3],
                !.commit_sha = k[4]] :
     g \in KeyUrls, f \in KeyPaths, k \in KeyResolutions}

InitKey ==
  /\ store = {}
  /\ dirExists = FALSE
  /\ remote = [heads |-> (Main :> A1), tags |-> (V1 :> A1)]
  /\ inv \in [Procs -> KeyInputs]
  /\ runs = 0
  /\ moves = 0

NextKey == \E p \in Procs : KeyDerive(p)

SpecKey == InitKey /\ [][NextKey]_vars

\* ===================================================== properties
\* The stage an invocation is at, or was at when it failed.
Position(r) == IF r.pc = "failed" THEN r.failedAt ELSE r.pc

\* The cache check has been made.
Checked(r) ==
  Position(r) \in {"uptodate", "remove", "mkdir", "clone", "checkout", "read",
                   "write", "write_all", "done"}

\* The record the cache check found has another commit than the resolved one.
StaleFound(r) ==
  /\ Checked(r)
  /\ is_some(r.existing_snippet)
  /\ unwrap(r.existing_snippet).commit_hash # r.commit_sha

Count(log, op) == Cardinality({i \in 1..Len(log) : log[i] = op})

Matching(st, prefix) == {e \in st : starts_with(e.name, prefix)}

\* Every (url, option type, option value, path) an invocation can ask for.
Options ==
  {<<KBranch, Main>>, <<KBranch, NoBranch>>, <<KTag, V1>>,
   <<KCommit, A1>>, <<KCommit, B2>>, <<KCommit, ZZ>>}

Requests == Urls \X Options \X Paths

PrefixOf(q) == SnippetFile_new(q[1], q[2][1], q[2][2], q[3], <<>>).prefix

\* The prefixes of all requests.
AllPrefixes == {PrefixOf(q) : q \in Requests}

\* The prefix and path of every request.
RequestKeys == {[prefix |-> PrefixOf(q), path |-> q[3]] : q \in Requests}

\* C1: when the cache check found a stale record and the fetch of the new
\* commit then fails, the store is the store the invocation started with.
C1_FetchFailureKeepsOldRecord ==
  \A p \in Procs :
    (inv[p].pc = "failed" /\ inv[p].failedAt \in {"clone", "checkout"}
       /\ StaleFound(inv[p]))
      => store = inv[p].store0

\* C2: as long as the new commit has not been fetched and its file read,
\* the stale record the cache check found is still in the store.
C2_StalePresentUntilFetched ==
  \A p \in Procs :
    (StaleFound(inv[p])
       /\ Position(inv[p]) \in {"remove", "mkdir", "clone", "checkout", "read"})
      => unwrap(inv[p].existing_snippet).full_name \in Names(store)

\* C3: when the store the invocation started with holds the record named
\* {prefix}-{resolved commit}.rs, the cache check ends the invocation in
\* UpToDate without error, with no commit fetch, with no store operation
\* other than the directory scan, with the store as it was, and reporting
\* that record.
C3_IdempotentCacheHit ==
  \A p \in Procs :
    (Checked(inv[p]) /\ inv[p].new_snippet.full_name \in Names(inv[p].store0))
      => /\ inv[p].pc = "uptodate"
         /\ inv[p].err = "none"
         /\ Count(inv[p].remote_ops, "commit_fetch") = 0
         /\ inv[p].fs_ops = <<"read_dir">>
         /\ inv[p].temp_dir.state = "none"
         /\ store = inv[p].store0
         /\ is_some(inv[p].existing_snippet)
         /\ unwrap(inv[p].existing_snippet).full_name = inv[p].new_snippet.full_name

\* C4: an invocation that started with exactly one record for its prefix,
\* named with another commit than the one it resolved, and ran to Done
\* leaves exactly one record for the prefix: the one named with the resolved
\* commit, holding the file at that commit; the record it started with is
\* gone.
C4_CorrectInvalidation ==
  \A p \in Procs :
    LET r == inv[p]
        before == Matching(r.store0, r.new_snippet.prefix)
        now == Matching(store, r.new_snippet.prefix)
    IN (r.pc = "done" /\ Cardinality(before) = 1
          /\ r.new_snippet.full_name \notin Names(before))
         => /\ Cardinality(now) = 1
            /\ \A e \in now :
                 /\ e.name = r.new_snippet.full_name
                 /\ e.name = r.new_snippet.prefix \o Hyphen \o r.commit_sha \o DotRs
                 /\ Some(e.content) = FileAt(r.commit_sha, r.args.path)
            /\ Names(before) \cap Names(store) = {}

\* C5: the store never holds two records for one prefix.
C5_OneRecordPerPrefix ==
  \A P \in AllPrefixes : Cardinality(Matching(store, P)) <= 1

\* C6: every record holds the requested file as it is at the commit its
\* file name embeds.  A write_all that fails leaves the file File::create
\* made, empty, under the name of the resolved commit.
C6_ContentMatchesName ==
  \A e \in store :
    \E k \in RequestKeys :
      LET f == find_entry(k.prefix, e.name)
      IN /\ is_some(f)
         /\ FileAt(unwrap(f).commit_hash, k.path) = Some(e.content)

\* C7: once the commit is checked out and the requested path is not in its
\* tree, the invocation fails at the read with an I/O error, where a failed
\* commit fetch or checkout gives a git error, and the store has no record
\* named with the resolved commit.
C7_MissingPath ==
  \A p \in Procs :
    LET r == inv[p]
    IN /\ (is_some(r.temp_dir.commit) /\ r.pc # "read"
             /\ FileAt(unwrap(r.temp_dir.commit), r.args.path) = None)
            => /\ r.pc = "failed"
               /\ r.failedAt = "read"
               /\ r.err = "io"
               /\ Count(r.fs_ops, "write") = 0
               /\ r.new_snippet.full_name \notin Names(store)
       /\ (r.pc = "failed" /\ r.failedAt \in {"clone", "checkout"}
             /\ Count(r.remote_ops, "commit_fetch") = 1)
            => r.err = "git2"

\* C8: an invocation given two or more of --branch, --tag, --commit_hash
\* fails validation with no remote operation and no store operation made.
C8_SelectorExclusivity ==
  \A p \in Procs :
    LET r == inv[p]
        given == Cardinality({o \in {"branch", "tag", "commit_hash"} :
                                is_some(r.args[o])})
    IN (given >= 2 /\ r.pc \notin {"idle", "validate"})
         => /\ r.pc = "failed"
            /\ r.failedAt = "validate"
            /\ r.err = "validation"
            /\ r.remote_ops = <<>>
            /\ r.fs_ops = <<>>
            /\ store = r.store0
            /\ dirExists = r.dir0

C8_Witness ==
  \E p \in Procs :
    /\ inv[p].pc = "failed"
    /\ inv[p].err = "validation"
    /\ is_some(inv[p].args.tag)
    /\ is_some(inv[p].args.commit_hash)
    /\ ~is_some(inv[p].args.branch)

\* C9: resolution makes at most one default-branch handshake and at most
\* one ref fetch, and none of the former for an explicit branch or tag.
C9_ResolverNetworkBudget ==
  \A p \in Procs :
    LET r == inv[p]
    IN /\ Count(r.remote_ops, "handshake") <= 1
       /\ Count(r.remote_ops, "ref_fetch") <= 1
       /\ (is_some(r.args.branch) \/ is_some(r.args.tag))
            => Count(r.remote_ops, "handshake") = 0

\* C10: with --commit_hash the resolved commit is the given hash, nothing
\* is asked of the remote before the commit fetch, and a cache hit ends the
\* invocation with no remote operation at all.
C10_CommitHashOffline ==
  \A p \in Procs :
    LET r == inv[p]
    IN (is_some(r.args.commit_hash)
          /\ Position(r) \notin {"idle", "validate", "resolve"})
         => /\ r.commit_sha = unwrap(r.args.commit_hash)
            /\ r.git_option_type = KCommit
            /\ r.remote_ops \in {<<>>, <<"commit_fetch">>}
            /\ (Position(r) \in {"key", "check", "uptodate", "remove", "mkdir"})
                 => r.remote_ops = <<>>
            /\ r.remote_ops = <<"commit_fetch">>
                 => Position(r) \in {"clone", "checkout", "read", "write",
                                     "write_all", "done"}

C10_Witness ==
  \E p \in Procs :
    /\ inv[p].pc = "uptodate"
    /\ is_some(inv[p].args.commit_hash)
    /\ inv[p].remote_ops = <<>>
    /\ inv[p].new_snippet.full_name \in Names(store)

\* The stages of the Reference Resolver.
ResolverStages == {"gdb_connect", "sha_connect", "sha_fetch"}

\* A commit hash that Oid::from_str rejects.
Malformed(o) == is_some(o) /\ unwrap(o) = ZZ

\* C13: an invocation that fails in the resolver, or whose malformed commit
\* hash is rejected (by Oid::from_str, the first call after the fetch),
\* leaves the store and the existence of its directory as they were.
C13_ResolutionFailureNoPartialState ==
  \A p \in Procs :
    (inv[p].pc = "failed"
       /\ (inv[p].failedAt \in ResolverStages
             \/ (inv[p].failedAt = "checkout" /\ Malformed(inv[p].args.commit_hash))))
      => store = inv[p].store0 /\ dirExists = inv[p].dir0

\* C16: at Done the work tree's TempDir has been forgotten, never dropped;
\* an invocation that failed once the TempDir existed (repository set-up,
\* fetch, checkout, file read or store write) has dropped it; one whose
\* tempdir() failed never had one.
C16_WorkspaceLifetime ==
  \A p \in Procs :
    /\ inv[p].pc = "done" => inv[p].temp_dir.state = "forgotten"
    /\ inv[p].temp_dir.state = "forgotten" => inv[p].pc = "done"
    /\ (inv[p].pc = "failed"
          /\ inv[p].failedAt \in {"checkout", "read", "write", "write_all"})
         => inv[p].temp_dir.state = "dropped"
    /\ (inv[p].pc = "failed" /\ inv[p].failedAt = "clone")
         => inv[p].temp_dir.state = IF inv[p].err = "io" THEN "none" ELSE "dropped"
    /\ inv[p].pc \in {"checkout", "read", "write", "write_all"}
         => inv[p].temp_dir.state = "live"

\* The read of a file that is in the checkout failed, and the TempDir was
\* dropped.
C16_Witness ==
  \E p \in Procs :
    /\ inv[p].pc = "failed"
    /\ inv[p].failedAt = "read"
    /\ is_some(WorkDirFile(inv[p].commit_sha, inv[p].args.path))
    /\ inv[p].temp_dir = [state |-> "dropped", commit |-> Some(inv[p].commit_sha)]

\* C17: under --commit_hash a record found by the cache check has the given
\* hash as its commit, and no stale record is ever removed.
C17_CommitHashNeverStale ==
  \A p \in Procs :
    (is_some(inv[p].args.commit_hash) /\ Checked(inv[p]))
      => /\ is_some(inv[p].existing_snippet)
              => unwrap(inv[p].existing_snippet).commit_hash
                   = unwrap(inv[p].args.commit_hash)
         /\ Position(inv[p]) # "remove"
         /\ Count(inv[p].fs_ops, "remove_file") = 0

\* A --commit_hash run that missed while the store held the record of
\* another hash for the same url and path.
C17_Witness ==
  \E p \in Procs :
    /\ inv[p].pc = "done"
    /\ is_some(inv[p].args.commit_hash)
    /\ \E other \in Commits \ {inv[p].commit_sha} :
         SnippetFile_new(inv[p].args.git, KCommit, other, inv[p].args.path, other).full_name
           \in Names(inv[p].store0)

\* C18: before the key is derived an invocation leaves the store alone;
\* afterwards every file it added or removed has a name starting with its
\* prefix, and the records of every other prefix are as at its start.
C18_FrameAcrossPrefixes ==
  \A p \in Procs :
    LET r == inv[p]
        P == r.new_snippet.prefix
    IN /\ (r.pc # "idle" /\ ~Checked(r)) => store = r.store0
       /\ Checked(r)
            => /\ \A e \in (store \ r.store0) \cup (r.store0 \ store) :
                    starts_with(e.name, P)
               /\ \A Q \in AllPrefixes \ {P} :
                    Matching(store, Q) = Matching(r.store0, Q)

\* An invocation wrote its record beside the record of another prefix.
C18_Witness ==
  \E p \in Procs :
    /\ inv[p].pc = "done"
    /\ inv[p].new_snippet.full_name \in Names(store)
    /\ \E e \in store \cap inv[p].store0 :
         ~starts_with(e.name, inv[p].new_snippet.prefix)

\* C12: two derived prefixes are equal exactly when url, option type,
\* option value and path are all equal, whatever the resolved commits are.
C12_KeyInjective ==
  \A p, q \in Procs :
    (inv[p].pc = "check" /\ inv[q].pc = "check")
      => (inv[p].new_snippet.prefix = inv[q].new_snippet.prefix
            <=> /\ inv[p].args.git = inv[q].args.git
                /\ inv[p].git_option_type = inv[q].git_option_type
                /\ inv[p].git_option_value = inv[q].git_option_value
                /\ inv[p].args.path = inv[q].args.path)

\* The same request resolved to two commits, and two paths with one file
\* name, both with their keys derived.
C12_Witness ==
  /\ inv[1].pc = "check" /\ inv[2].pc = "check"
  /\ inv[1].args.git = inv[2].args.git
  /\ inv[1].git_option_type = KTag /\ inv[2].git_option_type = KTag
  /\ inv[1].args.path = inv[2].args.path
  /\ inv[1].commit_sha # inv[2].commit_sha
  /\ inv[1].new_snippet.prefix = inv[2].new_snippet.prefix
  /\ inv[1].new_snippet.full_name # inv[2].new_snippet.full_name

\* C14: an invocation makes the resolver's ref fetch, the commit fetch and
\* the store write at most once each, a terminated invocation takes no
\* further step, and every started invocation terminates.
C14_TerminatesWithoutRetries ==
  /\ [](\A p \in Procs :
          /\ Count(inv[p].remote_ops, "ref_fetch") <= 1
          /\ Count(inv[p].remote_ops, "commit_fetch") <= 1
          /\ Count(inv[p].fs_ops, "write") <= 1
          /\ Count(inv[p].fs_ops, "remove_file") <= 1)
  /\ [][\A p \in Procs :
          inv[p].pc \in Terminal => (inv'[p] = inv[p] \/ inv'[p].pc = "validate")]_vars
  /\ \A p \in Procs : (inv[p].pc = "validate") ~> (inv[p].pc \in Terminal)

C14_Witness ==
  \E p \in Procs :
    /\ inv[p].pc = "done"
    /\ inv[p].remote_ops = <<"handshake", "handshake", "ref_fetch", "commit_fetch">>
    /\ inv[p].fs_ops = <<"read_dir", "remove_file", "create_dir_all", "write">>

\* C15: the record a successful invocation wrote is what find_existing
\* returns for its prefix, with the commit it was written for; and the next
\* invocation with the same arguments that resolves the same commit ends in
\* UpToDate on that record, without a commit fetch or a change of the store.
C15_FilenameRoundTrip ==
  LET written == [prefix |-> inv[1].new_snippet.prefix,
                  commit_hash |-> inv[1].commit_sha,
                  full_name |-> inv[1].new_snippet.prefix \o Hyphen
                                  \o inv[1].commit_sha \o DotRs]
  IN /\ (inv[1].pc = "done" /\ inv[2].pc \in {"idle", "validate"})
          => find_existing(dirExists, Names(store), inv[1].new_snippet.prefix)
               = {Some(written)}
     /\ (inv[1].pc = "done" /\ Checked(inv[2])
           /\ inv[2].args = inv[1].args
           /\ inv[2].commit_sha = inv[1].commit_sha)
          => /\ inv[2].pc = "uptodate"
             /\ inv[2].existing_snippet = Some(written)
             /\ Count(inv[2].remote_ops, "commit_fetch") = 0
             /\ inv[2].fs_ops = <<"read_dir">>
             /\ store = inv[2].store0

\* The selector has been resolved to a commit.
Resolved(r) == Position(r) \in {"key", "check"} \/ Checked(r)

\* The key has been derived.
KeyDerived(r) == Position(r) = "check" \/ Checked(r)

\* C11: an invocation without selector and one with --branch d, d being the
\* remote's default branch without refs/heads/, that resolve against the
\* same remote state get the same commit, the option type branch and the
\* option value d, and with one url and path the same prefix and file name.
C11_DefaultBranchEquivalence ==
  \A p, q \in Procs :
    LET a == inv[p]
        b == inv[q]
        d == strip_prefix_or(RemoteHEAD, RefsHeads)
    IN (/\ Resolved(a) /\ Resolved(b)
        /\ options_count(a.args) = 0
        /\ b.args.branch = Some(d) /\ options_count(b.args) = 1
        /\ a.moves_at_resolve = b.moves_at_resolve)
         => /\ a.commit_sha = b.commit_sha
            /\ a.git_option_type = KBranch /\ b.git_option_type = KBranch
            /\ a.git_option_value = d /\ b.git_option_value = d
            /\ (KeyDerived(a) /\ KeyDerived(b)
                  /\ a.args.git = b.args.git /\ a.args.path = b.args.path)
                 => a.new_snippet = b.new_snippet

\* Both resolved after the default branch had moved, one without selector
\* and one with --branch main, and both derived their key.
C11_Witness ==
  \E p, q \in Procs :
    /\ options_count(inv[p].args) = 0
    /\ inv[q].args.branch = Some(Main)
    /\ KeyDerived(inv[p]) /\ KeyDerived(inv[q])
    /\ inv[p].moves_at_resolve = inv[q].moves_at_resolve
    /\ inv[p].commit_sha = B2
    /\ inv[p].new_snippet.full_name = inv[q].new_snippet.full_name

\* C19: with two invocations interleaved step by step, every file of the
\* store carries the prefix of a request, and for each such request its
\* content is that request's file at the commit its name ends with.  The
\* file File::create made is empty until write_all has succeeded.
C19_ConcurrentNameContent ==
  \A e \in store :
    /\ \E k \in RequestKeys : starts_with(e.name, k.prefix)
    /\ \A k \in RequestKeys :
         starts_with(e.name, k.prefix)
           => LET f == find_entry(k.prefix, e.name)
              IN /\ is_some(f)
                 /\ Some(e.content) = FileAt(unwrap(f).commit_hash, k.path)

====
